---- MODULE Spec2Model ----
(***************************************************************************)
(* Model of backend/services.py: DateParser, PriceService, EventService    *)
(* and ChangePointService, and of the error mapping of backend/app.py.     *)
(*                                                                         *)
(* Encoding of Python values:                                              *)
(*   str        a tuple of one-character strings, "" is << >>              *)
(*   None       the tuple <<"None">> (no text contains a "None" element)   *)
(*   date       the tuple <<year, month, day>>                             *)
(*   float      <<"finite", hundredths>>, <<"nan">>, <<"inf">>, <<"-inf">> *)
(*   dict       a tuple of <<key, value>> pairs in insertion order         *)
(*   CSV row    a record whose fields are the header's column names        *)
(*   JSON value a tagged tuple <<"str", text>>, <<"int", n>>, <<"null">>,  *)
(*              <<"list", items>>, <<"dict", pairs>>                       *)
(***************************************************************************)
EXTENDS Integers, Sequences, FiniteSets, TLC

VARIABLES pc, req, rows, idx, start, end, has_category, payload,
          invalid_date, invalid_price, invalid_event, cps, normalized,
          result, response

vars == <<pc, req, rows, idx, start, end, has_category, payload,
          invalid_date, invalid_price, invalid_event, cps, normalized,
          result, response>>

None == <<"None">>

ValueError == <<"ValueError">>

-----------------------------------------------------------------------------
(* Text primitives: str.strip, str.replace, character classes.             *)

Whitespace == {" ", "\t"}

Digits == <<"0", "1", "2", "3", "4", "5", "6", "7", "8", "9">>

IsDigit(c) == \E i \in 1..10 : Digits[i] = c

DigitVal(c) == (CHOOSE i \in 1..10 : Digits[i] = c) - 1

AllDigits(s) == \A i \in 1..Len(s) : IsDigit(s[i])

RECURSIVE ToInt(_)
ToInt(s) ==
  IF s = << >> THEN 0
  ELSE 10 * ToInt(SubSeq(s, 1, Len(s) - 1)) + DigitVal(s[Len(s)])

RECURSIVE LStrip(_)
LStrip(s) ==
  IF s # << >> /\ s[1] \in Whitespace THEN LStrip(Tail(s)) ELSE s

RECURSIVE RStrip(_)
RStrip(s) ==
  IF s # << >> /\ s[Len(s)] \in Whitespace
  THEN RStrip(SubSeq(s, 1, Len(s) - 1))
  ELSE s

Strip(s) == RStrip(LStrip(s))

RECURSIVE Replace(_, _, _)
Replace(s, old, new) ==
  IF s = << >> THEN << >>
  ELSE (IF s[1] = old THEN new ELSE <<s[1]>>) \o Replace(Tail(s), old, new)

(* str.split(sep) for a one-character separator *)
RECURSIVE Split(_, _)
Split(s, sep) ==
  IF \A i \in 1..Len(s) : s[i] # sep THEN <<s>>
  ELSE LET k == CHOOSE i \in 1..Len(s) :
                  s[i] = sep /\ \A j \in 1..(i - 1) : s[j] # sep
       IN <<SubSeq(s, 1, k - 1)>> \o Split(SubSeq(s, k + 1, Len(s)), sep)

UpperCase == <<"A","B","C","D","E","F","G","H","I","J","K","L","M",
               "N","O","P","Q","R","S","T","U","V","W","X","Y","Z">>

LowerCase == <<"a","b","c","d","e","f","g","h","i","j","k","l","m",
               "n","o","p","q","r","s","t","u","v","w","x","y","z">>

Lower(c) ==
  IF \E i \in 1..26 : UpperCase[i] = c
  THEN LowerCase[CHOOSE i \in 1..26 : UpperCase[i] = c]
  ELSE c

LowerText(s) == [i \in 1..Len(s) |-> Lower(s[i])]

-----------------------------------------------------------------------------
(* datetime.date: validity, comparison, isoformat.                         *)

MINYEAR == 1

IsLeap(y) == (y % 4 = 0) /\ ((y % 100 # 0) \/ (y % 400 = 0))

DaysInMonth(y, m) ==
  IF m = 2 THEN (IF IsLeap(y) THEN 29 ELSE 28)
  ELSE IF m \in {4, 6, 9, 11} THEN 30 ELSE 31

ValidDate(y, m, d) ==
  /\ y >= MINYEAR
  /\ m \in 1..12
  /\ d >= 1
  /\ d <= DaysInMonth(y, m)

MakeDate(y, m, d) == IF ValidDate(y, m, d) THEN <<y, m, d>> ELSE ValueError

DateLess(a, b) ==
  \/ a[1] < b[1]
  \/ a[1] = b[1] /\ a[2] < b[2]
  \/ a[1] = b[1] /\ a[2] = b[2] /\ a[3] < b[3]

Pad(n, width) ==
  [i \in 1..width |-> Digits[((n \div (10 ^ (width - i))) % 10) + 1]]

isoformat(d) == Pad(d[1], 4) \o <<"-">> \o Pad(d[2], 2) \o <<"-">> \o Pad(d[3], 2)

-----------------------------------------------------------------------------
(* datetime.fromisoformat, restricted to the forms every CPython release   *)
(* that has the function accepts: YYYY-MM-DD, optionally followed by one   *)
(* separator character and HH[:MM[:SS]] with an optional +HH:MM / -HH:MM   *)
(* offset.                                                                 *)

TwoDigits(s) == Len(s) = 2 /\ AllDigits(s)

IsIsoClock(s) ==
  /\ Len(s) \in {2, 5, 8}
  /\ TwoDigits(SubSeq(s, 1, 2)) /\ ToInt(SubSeq(s, 1, 2)) < 24
  /\ Len(s) >= 5 =>
       s[3] = ":" /\ TwoDigits(SubSeq(s, 4, 5)) /\ ToInt(SubSeq(s, 4, 5)) < 60
  /\ Len(s) = 8 =>
       s[6] = ":" /\ TwoDigits(SubSeq(s, 7, 8)) /\ ToInt(SubSeq(s, 7, 8)) < 60

IsIsoOffset(s) ==
  /\ Len(s) = 6
  /\ s[1] \in {"+", "-"}
  /\ TwoDigits(SubSeq(s, 2, 3)) /\ ToInt(SubSeq(s, 2, 3)) < 24
  /\ s[4] = ":"
  /\ TwoDigits(SubSeq(s, 5, 6)) /\ ToInt(SubSeq(s, 5, 6)) < 60

IsIsoTime(s) ==
  \/ IsIsoClock(s)
  \/ /\ Len(s) > 6
     /\ IsIsoClock(SubSeq(s, 1, Len(s) - 6))
     /\ IsIsoOffset(SubSeq(s, Len(s) - 5, Len(s)))

fromisoformat(s) ==
  IF /\ Len(s) >= 10
     /\ AllDigits(SubSeq(s, 1, 4)) /\ s[5] = "-"
     /\ AllDigits(SubSeq(s, 6, 7)) /\ s[8] = "-"
     /\ AllDigits(SubSeq(s, 9, 10))
     /\ Len(s) # 10 => (Len(s) >= 13 /\ IsIsoTime(SubSeq(s, 12, Len(s))))
  THEN MakeDate(ToInt(SubSeq(s, 1, 4)), ToInt(SubSeq(s, 6, 7)),
                ToInt(SubSeq(s, 9, 10)))
  ELSE ValueError

-----------------------------------------------------------------------------
(* datetime.strptime for the directives of the five formats: each          *)
(* directive is the regular expression of _strptime.TimeRE, the literal    *)
(* separators split the text, and the whole text must be consumed.         *)

MonthAbbr ==
  << <<"j","a","n">>, <<"f","e","b">>, <<"m","a","r">>, <<"a","p","r">>,
     <<"m","a","y">>, <<"j","u","n">>, <<"j","u","l">>, <<"a","u","g">>,
     <<"s","e","p">>, <<"o","c","t">>, <<"n","o","v">>, <<"d","e","c">> >>

NoMatch == 0 - 1

(* two-digit years 00..68 are 2000..2068, 69..99 are 1969..1999 *)
PivotYear == 68

Directive(d, tok) ==
  CASE d = "Y" ->
         IF Len(tok) = 4 /\ AllDigits(tok) THEN ToInt(tok) ELSE NoMatch
    [] d = "y" ->
         IF Len(tok) = 2 /\ AllDigits(tok)
         THEN (IF ToInt(tok) <= PivotYear THEN 2000 + ToInt(tok)
                                          ELSE 1900 + ToInt(tok))
         ELSE NoMatch
    [] d = "m" ->
         IF Len(tok) \in {1, 2} /\ AllDigits(tok) /\ ToInt(tok) \in 1..12
         THEN ToInt(tok) ELSE NoMatch
    [] d = "d" ->
         IF Len(tok) \in {1, 2} /\ AllDigits(tok) /\ ToInt(tok) \in 1..31
         THEN ToInt(tok)
         ELSE IF Len(tok) = 2 /\ tok[1] = " " /\ IsDigit(tok[2]) /\ tok[2] # "0"
         THEN DigitVal(tok[2])
         ELSE NoMatch
    [] d = "b" ->
         IF \E i \in 1..12 : MonthAbbr[i] = LowerText(tok)
         THEN CHOOSE i \in 1..12 : MonthAbbr[i] = LowerText(tok)
         ELSE NoMatch

strptime(text, fmt) ==
  LET YearField(parts)  == IF \E i \in 1..3 : fmt.fields[i] = "y"
                      THEN Directive("y", parts[CHOOSE i \in 1..3 : fmt.fields[i] = "y"])
                      ELSE Directive("Y", parts[CHOOSE i \in 1..3 : fmt.fields[i] = "Y"])
      MonthField(parts) == IF \E i \in 1..3 : fmt.fields[i] = "b"
                      THEN Directive("b", parts[CHOOSE i \in 1..3 : fmt.fields[i] = "b"])
                      ELSE Directive("m", parts[CHOOSE i \in 1..3 : fmt.fields[i] = "m"])
      DayField(parts)   == Directive("d", parts[CHOOSE i \in 1..3 : fmt.fields[i] = "d"])
      Made(y, m, d) ==
        IF y = NoMatch \/ m = NoMatch \/ d = NoMatch THEN ValueError
        ELSE MakeDate(y, m, d)
      Matched(parts) ==
        IF Len(parts) # 3 THEN ValueError
        ELSE Made(YearField(parts), MonthField(parts), DayField(parts))
  IN Matched(Split(text, fmt.sep))

-----------------------------------------------------------------------------
(* DateParser                                                              *)

(* the patterns with day-first ahead of month-first *)
FORMATS_day_first ==
  << [sep |-> "/", fields |-> <<"Y", "m", "d">>],
     [sep |-> "/", fields |-> <<"d", "m", "Y">>],
     [sep |-> "/", fields |-> <<"m", "d", "Y">>],
     [sep |-> "-", fields |-> <<"d", "b", "y">>],
     [sep |-> "-", fields |-> <<"d", "b", "Y">>] >>

FORMATS ==
  << [sep |-> "/", fields |-> <<"Y", "m", "d">>],
     [sep |-> "/", fields |-> <<"m", "d", "Y">>],
     [sep |-> "/", fields |-> <<"d", "m", "Y">>],
     [sep |-> "-", fields |-> <<"d", "b", "y">>],
     [sep |-> "-", fields |-> <<"d", "b", "Y">>] >>

UTC == <<"+", "0", "0", ":", "0", "0">>

RECURSIVE TryFormats(_, _)
TryFormats(text, i) ==
  LET Tried(d) == IF d # ValueError THEN d ELSE TryFormats(text, i + 1)
  IN IF i > Len(FORMATS) THEN None ELSE Tried(strptime(text, FORMATS[i]))

parse(value) ==
  LET Iso(text, iso) == IF iso # ValueError THEN iso ELSE TryFormats(text, 1)
      Text(text) ==
        IF text = << >> THEN None
        ELSE Iso(text, fromisoformat(Replace(text, "Z", UTC)))
  IN IF value = None THEN None ELSE Text(Strip(value))

-----------------------------------------------------------------------------
(* float(text) for the texts float() accepts without exponent or           *)
(* underscore: [sign] digits [. digits], [sign] . digits, and the          *)
(* case-insensitive words inf, infinity, nan.  A finite value n / 10^k is  *)
(* <<"finite", n, k>> with k minimal.                                      *)

RECURSIVE DropTrailingZeros(_)
DropTrailingZeros(s) ==
  IF s # << >> /\ s[Len(s)] = "0"
  THEN DropTrailingZeros(SubSeq(s, 1, Len(s) - 1))
  ELSE s

Decimal(neg, body) ==
  LET Value(whole, kept) ==
        <<"finite",
          IF neg THEN 0 - ToInt(whole \o kept) ELSE ToInt(whole \o kept),
          Len(kept)>>
      Number(whole, frac) ==
        IF AllDigits(whole) /\ AllDigits(frac) /\ Len(whole) + Len(frac) > 0
        THEN Value(whole, DropTrailingZeros(frac))
        ELSE ValueError
      Parts(parts) ==
        IF Len(parts) = 1 THEN Number(parts[1], << >>)
        ELSE IF Len(parts) = 2 THEN Number(parts[1], parts[2])
        ELSE ValueError
  IN Parts(Split(body, "."))

float(s) ==
  LET Word(neg, body, word) ==
        IF word \in {<<"i","n","f">>, <<"i","n","f","i","n","i","t","y">>}
        THEN (IF neg THEN <<"-inf">> ELSE <<"inf">>)
        ELSE IF word = <<"n","a","n">> THEN <<"nan">>
        ELSE Decimal(neg, body)
      Signed(neg, body) == Word(neg, body, LowerText(body))
      Text(text) ==
        IF text # << >> /\ text[1] \in {"+", "-"}
        THEN Signed(text[1] = "-", Tail(text))
        ELSE Signed(FALSE, text)
  IN Text(Strip(s))

isfinite(x) == x[1] = "finite"

-----------------------------------------------------------------------------
(* Results of a call: a returned value or a raised ValidationError.  The   *)
(* code tells its errors apart by message only; name stands for the        *)
(* message template and detail for the values formatted into it.           *)

NoResult == [kind |-> "none"]

Return(v) == [kind |-> "ok", value |-> v]

ValidationError(name, detail, status_code) ==
  [kind |-> "error", name |-> name, detail |-> detail,
   status_code |-> status_code]

DefaultStatus == 400

NotFoundStatus == 404

Raised(r) == r.kind = "error"

(* dict.get on a CSV row *)
Get(row, key) == IF key \in DOMAIN row THEN row[key] ELSE None

(* value or "" *)
OrEmpty(v) == IF v = None THEN << >> ELSE v

Missing == [exists |-> FALSE]

File(rs) == [exists |-> TRUE, readable |-> TRUE, rows |-> rs]

Unreadable == [exists |-> TRUE, readable |-> FALSE, rows |-> << >>]

(* CsvTable.read_rows *)
read_rows(file) ==
  IF file.readable THEN Return(file.rows)
  ELSE ValidationError("DataAccessError", << >>, DefaultStatus)

-----------------------------------------------------------------------------
(* str comparison by code point, for the characters of an isoformat text, *)
(* and list.sort(key=item["date"]), which is stable.                       *)

Ord(c) == IF c = "-" THEN 45 ELSE 48 + DigitVal(c)

RECURSIVE StrLess(_, _)
StrLess(a, b) ==
  IF b = << >> THEN FALSE
  ELSE IF a = << >> THEN TRUE
  ELSE IF a[1] # b[1] THEN Ord(a[1]) < Ord(b[1])
  ELSE StrLess(Tail(a), Tail(b))

(* list.sort were it not stable: x goes before the elements equal to it *)
Insert_unstable(sorted, x) ==
  LET k == Cardinality({i \in 1..Len(sorted) : StrLess(sorted[i].date, x.date)})
  IN SubSeq(sorted, 1, k) \o <<x>> \o SubSeq(sorted, k + 1, Len(sorted))

(* x goes after every element that does not compare greater than it *)
Insert(sorted, x) ==
  LET k == Cardinality({i \in 1..Len(sorted) : ~StrLess(x.date, sorted[i].date)})
  IN SubSeq(sorted, 1, k) \o <<x>> \o SubSeq(sorted, k + 1, Len(sorted))

RECURSIVE sort(_)
sort(items) ==
  IF items = << >> THEN << >>
  ELSE Insert(sort(SubSeq(items, 1, Len(items) - 1)), items[Len(items)])

-----------------------------------------------------------------------------
(* PriceService                                                            *)

_select_prices_path(paths) ==
  IF paths.prices.exists THEN "prices" ELSE "alt_prices"

_parse_query_date(name, raw) ==
  LET Parsed(text, parsed) ==
        IF parsed = None
        THEN ValidationError("InvalidArgument", <<name, text>>, DefaultStatus)
        ELSE Return(parsed)
      Text(text) ==
        IF text = << >> THEN Return(None) ELSE Parsed(text, parse(text))
  IN IF raw = None THEN Return(None) ELSE Text(Strip(raw))

parse_query_dates(start_raw, end_raw) ==
  LET Checked(s, e) ==
        IF Raised(s) THEN s
        ELSE IF Raised(e) THEN e
        ELSE IF s.value # None /\ e.value # None /\ DateLess(e.value, s.value)
        THEN ValidationError("InvalidArgument", <<"range">>, DefaultStatus)
        ELSE Return(<<s.value, e.value>>)
  IN Checked(_parse_query_date("start", start_raw),
             _parse_query_date("end", end_raw))

StripCommas(v) == Strip(Replace(OrEmpty(v), ",", << >>))

(* the row is inside the active bounds *)
InRange(row_date, lo, hi) ==
  /\ ~(lo # None /\ DateLess(row_date, lo))
  /\ ~(hi # None /\ DateLess(hi, row_date))

(* the loop body with the range test ahead of the price conversion and its *)
(* continue taken for a counted row                                        *)
PriceRow_range_counted(row, lo, hi) ==
  LET Outcome(row_date, price) ==
        IF row_date = None THEN [act |-> "invalid_date"]
        ELSE IF ~InRange(row_date, lo, hi) THEN [act |-> "invalid_price"]
        ELSE IF price = ValueError THEN [act |-> "invalid_price"]
        ELSE [act |-> "append",
              item |-> [date |-> isoformat(row_date), price |-> price]]
  IN Outcome(parse(Get(row, "Date")), float(StripCommas(Get(row, "Price"))))

(* one iteration of the loop over rows: what the row does *)
PriceRow(row, lo, hi) ==
  LET Outcome(row_date, price) ==
        IF row_date = None THEN [act |-> "invalid_date"]
        ELSE IF price = ValueError THEN [act |-> "invalid_price"]
        ELSE IF ~InRange(row_date, lo, hi) THEN [act |-> "skip"]
        ELSE [act |-> "append",
              item |-> [date |-> isoformat(row_date), price |-> price]]
  IN Outcome(parse(Get(row, "Date")), float(StripCommas(Get(row, "Price"))))

NoValidPrices(p, bad_dates, bad_prices) ==
  p = << >> /\ (bad_dates # 0 \/ bad_prices # 0)

(* get_prices up to the loop: source selection, read, schema check and     *)
(* query bounds, in the order of the code                                  *)
get_prices_entry(paths, start_raw, end_raw) ==
  LET Bounded(table, bounds) ==
        IF Raised(bounds) THEN [next |-> "done", result |-> bounds]
        ELSE [next |-> "loop", rows |-> table,
              start |-> bounds.value[1], end |-> bounds.value[2]]
      Read(read) ==
        IF Raised(read) THEN [next |-> "done", result |-> read]
        ELSE IF read.value = << >>
        THEN [next |-> "done", result |-> Return(<< >>)]
        ELSE IF \/ "Date" \notin DOMAIN read.value[1]
                \/ "Price" \notin DOMAIN read.value[1]
        THEN [next |-> "done",
              result |-> ValidationError("SchemaError", <<"Date", "Price">>,
                                         DefaultStatus)]
        ELSE Bounded(read.value, parse_query_dates(start_raw, end_raw))
      Selected(file) ==
        IF ~file.exists
        THEN [next |-> "done",
              result |-> ValidationError("NotFound", << >>, NotFoundStatus)]
        ELSE Read(read_rows(file))
  IN Selected(paths[_select_prices_path(paths)])

(* get_prices after the loop: sort, then fail or return *)
get_prices_exit(p, bad_dates, bad_prices) ==
  LET Sorted(sorted) ==
        IF NoValidPrices(sorted, bad_dates, bad_prices)
        THEN ValidationError("NoValidData", <<bad_dates, bad_prices>>,
                             DefaultStatus)
        ELSE Return(sorted)
  IN Sorted(sort(p))

-----------------------------------------------------------------------------
(* Inputs of the price pipeline                                            *)

MaxRows == 3

Bad == <<"b", "a", "d">>

D_2019_12_31 == <<"2","0","1","9","-","1","2","-","3","1">>

D_2020_01_01 == <<"2","0","2","0","-","0","1","-","0","1">>

D_2020_01_02 == <<"2","0","2","0","-","0","1","-","0","2">>

D_2020_06_01 == <<"2","0","2","0","-","0","6","-","0","1">>

D_01_01_2020 == <<"0","1","/","0","1","/","2","0","2","0">>

PriceRowPool ==
  { [Date |-> D_2020_01_01, Price |-> <<"1", ",", "2", "3", "4", ".", "5">>],
    [Date |-> Bad,          Price |-> <<"1", "0">>],
    [Date |-> D_2020_01_02, Price |-> <<"x">>],
    [Date |-> D_01_01_2020, Price |-> <<" ", "7", " ">>],
    [Date |-> D_2019_12_31, Price |-> <<"n", "a", "n">>],
    [Date |-> D_2020_06_01, Price |-> <<"-", "I", "n", "f", "i", "n", "i", "t", "y">>],
    [Date |-> None,         Price |-> None] }

SeqsUpTo(S, n) == UNION {[1..k -> S] : k \in 0..n}

PriceTables == SeqsUpTo(PriceRowPool, MaxRows)

WrongColumns ==
  { <<[date |-> D_2020_01_01, price |-> <<"1">>]>>,
    <<[Date |-> D_2020_01_01]>> }

PricePaths ==
  {[prices |-> Missing, alt_prices |-> Missing],
   [prices |-> Unreadable, alt_prices |-> Missing]}
  \cup {[prices |-> File(t), alt_prices |-> Missing] : t \in PriceTables}
  \cup {[prices |-> Missing, alt_prices |-> File(t)] :
          t \in SeqsUpTo(PriceRowPool, 1) \cup WrongColumns}
  \cup {[prices |-> File(t), alt_prices |-> File(<< >>)] : t \in WrongColumns}

StartTexts == {None, <<" ">>, D_2020_01_01, D_2020_01_02, Bad}

EndTexts == {None, D_2020_01_01, <<"0", "1", "/", "0", "6", "/", "2", "0", "2", "0">>}

-----------------------------------------------------------------------------
(* State machine                                                           *)

Init ==
  /\ pc = "idle"
  /\ req = [op |-> "none"]
  /\ rows = << >>
  /\ idx = 0
  /\ start = None
  /\ end = None
  /\ has_category = FALSE
  /\ payload = << >>
  /\ invalid_date = 0
  /\ invalid_price = 0
  /\ invalid_event = 0
  /\ cps = << >>
  /\ normalized = << >>
  /\ result = NoResult
  /\ response = NoResult

(* PriceService.get_prices, lines 95-111 *)
GetPrices ==
  /\ pc = "idle"
  /\ \E paths \in PricePaths, start_raw \in StartTexts, end_raw \in EndTexts :
       \E e \in {get_prices_entry(paths, start_raw, end_raw)} :
          /\ req' = [op |-> "get_prices", paths |-> paths,
                     start_raw |-> start_raw, end_raw |-> end_raw]
          /\ IF e.next = "done"
             THEN /\ pc' = "done"
                  /\ result' = e.result
                  /\ UNCHANGED <<rows, idx, start, end>>
             ELSE /\ pc' = "prices_loop"
                  /\ rows' = e.rows
                  /\ idx' = 1
                  /\ start' = e.start
                  /\ end' = e.end
                  /\ UNCHANGED result
          /\ UNCHANGED <<has_category, payload, invalid_date, invalid_price,
                         invalid_event, cps, normalized, response>>

(* one iteration of lines 113-131 *)
GetPricesRow ==
  /\ pc = "prices_loop"
  /\ idx <= Len(rows)
  /\ \E r \in {PriceRow(rows[idx], start, end)} :
        /\ invalid_date' = IF r.act = "invalid_date" THEN invalid_date + 1
                                                     ELSE invalid_date
        /\ invalid_price' = IF r.act = "invalid_price" THEN invalid_price + 1
                                                       ELSE invalid_price
        /\ payload' = IF r.act = "append" THEN Append(payload, r.item)
                                          ELSE payload
  /\ idx' = idx + 1
  /\ UNCHANGED <<pc, req, rows, start, end, has_category, invalid_event,
                 cps, normalized, result, response>>

(* lines 133-141 *)
GetPricesFinish ==
  /\ pc = "prices_loop"
  /\ idx > Len(rows)
  /\ pc' = "done"
  /\ payload' = sort(payload)
  /\ result' = get_prices_exit(payload, invalid_date, invalid_price)
  /\ UNCHANGED <<req, rows, idx, start, end, has_category, invalid_date,
                 invalid_price, invalid_event, cps, normalized, response>>

(* app.py: jsonify of the value, or handle_validation_error *)
http_response(r) ==
  IF Raised(r) THEN [status |-> r.status_code, error |-> r.name]
  ELSE [status |-> 200, body |-> r.value]

Respond ==
  /\ pc = "done"
  /\ pc' = "responded"
  /\ response' = http_response(result)
  /\ UNCHANGED <<req, rows, idx, start, end, has_category, payload,
                 invalid_date, invalid_price, invalid_event, cps, normalized,
                 result>>

NextPrices == GetPrices \/ GetPricesRow \/ GetPricesFinish \/ Respond

SpecPrices == Init /\ [][NextPrices]_vars

-----------------------------------------------------------------------------
(* EventService                                                            *)

(* the category passed through as read *)
OrNone_as_read(v) == v

(* value or None: None and "" both become None *)
OrNone(v) == IF v = None \/ v = << >> THEN None ELSE v

get_events_entry(paths) ==
  LET Read(read) ==
        IF Raised(read) THEN [next |-> "done", result |-> read]
        ELSE IF read.value = << >>
        THEN [next |-> "done", result |-> Return(<< >>)]
        ELSE IF \/ "date" \notin DOMAIN read.value[1]
                \/ "event" \notin DOMAIN read.value[1]
        THEN [next |-> "done",
              result |-> ValidationError("SchemaError", <<"date", "event">>,
                                         DefaultStatus)]
        ELSE [next |-> "loop", rows |-> read.value,
              has_category |-> "category" \in DOMAIN read.value[1]]
  IN IF ~paths.events.exists
     THEN [next |-> "done",
           result |-> ValidationError("NotFound", << >>, NotFoundStatus)]
     ELSE Read(read_rows(paths.events))

(* the loop body with an empty event counted with the invalid dates *)
EventRow_miscounted(row, with_category) ==
  LET Outcome(row_date, event) ==
        IF row_date = None \/ event = << >> THEN [act |-> "invalid_date"]
        ELSE [act |-> "append",
              item |-> [date |-> isoformat(row_date), event |-> event,
                        category |-> IF with_category
                                     THEN OrNone(Get(row, "category"))
                                     ELSE None]]
  IN Outcome(parse(Get(row, "date")), Strip(OrEmpty(Get(row, "event"))))

(* one iteration of the loop over rows *)
EventRow(row, with_category) ==
  LET Outcome(row_date, event) ==
        IF row_date = None THEN [act |-> "invalid_date"]
        ELSE IF event = << >> THEN [act |-> "invalid_event"]
        ELSE [act |-> "append",
              item |-> [date |-> isoformat(row_date), event |-> event,
                        category |-> IF with_category
                                     THEN OrNone(Get(row, "category"))
                                     ELSE None]]
  IN Outcome(parse(Get(row, "date")), Strip(OrEmpty(Get(row, "event"))))

get_events_exit(p, bad_dates, bad_events) ==
  LET Sorted(sorted) ==
        IF sorted = << >> /\ (bad_dates # 0 \/ bad_events # 0)
        THEN ValidationError("NoValidData", <<bad_dates, bad_events>>,
                             DefaultStatus)
        ELSE Return(sorted)
  IN Sorted(sort(p))

EventRowPool ==
  { [date |-> D_2020_01_01, event |-> <<"a">>,           category |-> << >>],
    [date |-> D_01_01_2020, event |-> <<" ", "b", " ">>, category |-> <<"c">>],
    [date |-> D_2019_12_31, event |-> <<"a">>,           category |-> <<" ">>],
    [date |-> Bad,          event |-> << >>,             category |-> <<"c">>],
    [date |-> D_2020_01_02, event |-> <<" ">>,           category |-> <<"c">>],
    [date |-> D_2020_01_02, event |-> None,              category |-> None],
    [date |-> Bad,          event |-> <<"a">>,           category |-> << >>] }

PlainEventRowPool ==
  { [date |-> D_2020_01_01, event |-> <<"a">>],
    [date |-> Bad,          event |-> << >>],
    [date |-> D_2019_12_31, event |-> <<" ">>],
    [date |-> D_2019_12_31, event |-> <<"b">>] }

EventPaths ==
  {[events |-> Missing], [events |-> Unreadable],
   [events |-> File(<<[date |-> D_2020_01_01, Event |-> <<"a">>]>>)]}
  \cup {[events |-> File(t)] : t \in SeqsUpTo(EventRowPool, MaxRows)}
  \cup {[events |-> File(t)] : t \in SeqsUpTo(PlainEventRowPool, MaxRows)}

(* EventService.get_events, lines 149-163 *)
GetEvents ==
  /\ pc = "idle"
  /\ \E paths \in EventPaths :
       \E e \in {get_events_entry(paths)} :
          /\ req' = [op |-> "get_events", paths |-> paths]
          /\ IF e.next = "done"
             THEN /\ pc' = "done"
                  /\ result' = e.result
                  /\ UNCHANGED <<rows, idx, has_category>>
             ELSE /\ pc' = "events_loop"
                  /\ rows' = e.rows
                  /\ idx' = 1
                  /\ has_category' = e.has_category
                  /\ UNCHANGED result
          /\ UNCHANGED <<start, end, payload, invalid_date, invalid_price,
                         invalid_event, cps, normalized, response>>

(* one iteration of lines 165-182 *)
GetEventsRow ==
  /\ pc = "events_loop"
  /\ idx <= Len(rows)
  /\ \E r \in {EventRow(rows[idx], has_category)} :
        /\ invalid_date' = IF r.act = "invalid_date" THEN invalid_date + 1
                                                     ELSE invalid_date
        /\ invalid_event' = IF r.act = "invalid_event" THEN invalid_event + 1
                                                       ELSE invalid_event
        /\ payload' = IF r.act = "append" THEN Append(payload, r.item)
                                          ELSE payload
  /\ idx' = idx + 1
  /\ UNCHANGED <<pc, req, rows, start, end, has_category, invalid_price,
                 cps, normalized, result, response>>

(* lines 184-192 *)
GetEventsFinish ==
  /\ pc = "events_loop"
  /\ idx > Len(rows)
  /\ pc' = "done"
  /\ payload' = sort(payload)
  /\ result' = get_events_exit(payload, invalid_date, invalid_event)
  /\ UNCHANGED <<req, rows, idx, start, end, has_category, invalid_date,
                 invalid_price, invalid_event, cps, normalized, response>>

NextEvents == GetEvents \/ GetEventsRow \/ GetEventsFinish \/ Respond

SpecEvents == Init /\ [][NextEvents]_vars

-----------------------------------------------------------------------------
(* ChangePointService                                                      *)

JNull == <<"null">>

JStr(text) == <<"str", text>>

JInt(n) == <<"int", n>>

JList(items) == <<"list", items>>

JDict(pairs) == <<"dict", pairs>>

IsDict(v) == v[1] = "dict"

IsList(v) == v[1] = "list"

(* key in dict, dict[key] and dict[key] = value on a dict's pairs *)
Has(pairs, key) == \E i \in 1..Len(pairs) : pairs[i][1] = key

Item(pairs, key) == pairs[CHOOSE i \in 1..Len(pairs) : pairs[i][1] = key][2]

SetItem(pairs, key, value) ==
  IF Has(pairs, key)
  THEN [i \in 1..Len(pairs) |->
          IF pairs[i][1] = key THEN <<key, value>> ELSE pairs[i]]
  ELSE Append(pairs, <<key, value>>)

(* dict.get(key): None for a missing key and for a JSON null *)
GetOrNone(pairs, key) ==
  IF Has(pairs, key) /\ Item(pairs, key) # JNull THEN Item(pairs, key)
  ELSE None

RECURSIVE Decimals(_)
Decimals(n) ==
  IF n < 10 THEN <<Digits[n + 1]>>
  ELSE Decimals(n \div 10) \o <<Digits[(n % 10) + 1]>>

(* str(value) of a JSON text, a JSON integer, an empty list or dict *)
Str(v) ==
  CASE v[1] = "str" -> v[2]
    [] v[1] = "int" ->
         IF v[2] < 0 THEN <<"-">> \o Decimals(0 - v[2]) ELSE Decimals(v[2])
    [] v[1] = "list" /\ v[2] = << >> -> <<"[", "]">>
    [] v[1] = "dict" /\ v[2] = << >> -> <<"{", "}">>

OPTIONAL_KEYS == <<"mean_before", "mean_after", "impact_pct", "notes">>

RECURSIVE CopyKeys(_, _, _)
CopyKeys(item, cp, k) ==
  IF k > Len(OPTIONAL_KEYS) THEN item
  ELSE CopyKeys(IF Has(cp, OPTIONAL_KEYS[k])
                THEN SetItem(item, OPTIONAL_KEYS[k], Item(cp, OPTIONAL_KEYS[k]))
                ELSE item,
                cp, k + 1)

(* the loop body naming entries from 1 *)
ChangePoint_one_based(cp, i) ==
  LET Dated(cp_date) ==
        IF cp_date = None
        THEN [act |-> "raise",
              result |-> ValidationError("SchemaError", <<"date", i + 1>>,
                                         DefaultStatus)]
        ELSE [act |-> "append", item |-> JDict(CopyKeys(<< <<"date", JStr(isoformat(cp_date))>> >>,
                                                        cp[2], 1))]
      Raw(cp_date_raw) ==
        Dated(parse(IF cp_date_raw # None THEN Str(cp_date_raw) ELSE None))
  IN IF ~IsDict(cp)
     THEN [act |-> "raise",
           result |-> ValidationError("SchemaError", <<"object", i + 1>>,
                                      DefaultStatus)]
     ELSE Raw(GetOrNone(cp[2], "date"))

(* the loop body copying the entry and overwriting its date *)
ChangePoint_copy_all(cp, i) ==
  LET Dated(cp_date) ==
        IF cp_date = None
        THEN [act |-> "raise",
              result |-> ValidationError("SchemaError", <<"date", i>>,
                                         DefaultStatus)]
        ELSE [act |-> "append", item |-> JDict(SetItem(cp[2], "date",
                                                       JStr(isoformat(cp_date))))]
      Raw(cp_date_raw) ==
        Dated(parse(IF cp_date_raw # None THEN Str(cp_date_raw) ELSE None))
  IN IF ~IsDict(cp)
     THEN [act |-> "raise",
           result |-> ValidationError("SchemaError", <<"object", i>>,
                                      DefaultStatus)]
     ELSE Raw(GetOrNone(cp[2], "date"))

(* one iteration of the loop over change_points; i is the 0-based index *)
ChangePoint(cp, i) ==
  LET Dated(cp_date) ==
        IF cp_date = None
        THEN [act |-> "raise",
              result |-> ValidationError("SchemaError", <<"date", i>>,
                                         DefaultStatus)]
        ELSE [act |-> "append", item |-> JDict(CopyKeys(<< <<"date", JStr(isoformat(cp_date))>> >>,
                                                        cp[2], 1))]
      Raw(cp_date_raw) ==
        Dated(parse(IF cp_date_raw # None THEN Str(cp_date_raw) ELSE None))
  IN IF ~IsDict(cp)
     THEN [act |-> "raise",
           result |-> ValidationError("SchemaError", <<"object", i>>,
                                      DefaultStatus)]
     ELSE Raw(GetOrNone(cp[2], "date"))

Unparsable == [exists |-> TRUE, json |-> FALSE]

Json(v) == [exists |-> TRUE, json |-> TRUE, value |-> v]

get_change_points_entry(paths) ==
  LET file == paths.change_points
  IN IF ~file.exists
     THEN [next |-> "done",
           result |-> ValidationError("NotFound", << >>, NotFoundStatus)]
     ELSE IF ~file.json
     THEN [next |-> "done",
           result |-> ValidationError("ParseError", << >>, DefaultStatus)]
     ELSE IF ~IsDict(file.value)
     THEN [next |-> "done",
           result |-> ValidationError("SchemaError", <<"top">>, DefaultStatus)]
     ELSE IF GetOrNone(file.value[2], "change_points") = None
     THEN [next |-> "done",
           result |-> ValidationError("SchemaError", <<"missing">>,
                                      DefaultStatus)]
     ELSE IF ~IsList(Item(file.value[2], "change_points"))
     THEN [next |-> "done",
           result |-> ValidationError("SchemaError", <<"list">>,
                                      DefaultStatus)]
     ELSE [next |-> "loop", rows |-> Item(file.value[2], "change_points")[2]]

get_change_points_exit(doc, items) ==
  Return(JDict(SetItem(doc[2], "change_points", JList(items))))

MaxEntries == 3

D_03_04_2020 == <<"0","3","/","0","4","/","2","0","2","0">>

D_2021_03_01 == <<"2","0","2","1","-","0","3","-","0","1">>

ChangePointPool ==
  { JDict(<< <<"date", JStr(D_2021_03_01)>>, <<"impact_pct", JInt(5)>>,
             <<"unexpected", JStr(<<"x">>)>> >>),
    JDict(<< <<"notes", JStr(<<"n">>)>>, <<"mean_before", JInt(1)>>,
             <<"date", JStr(D_03_04_2020)>>, <<"mean_after", JNull>> >>),
    JDict(<< <<"impact_pct", JInt(5)>> >>),
    JDict(<< <<"date", JStr(Bad)>>, <<"notes", JStr(<<"n">>)>> >>),
    JDict(<< <<"date", JNull>> >>),
    JDict(<< <<"date", JInt(2021)>> >>),
    JInt(7) }

ChangePointLists == SeqsUpTo(ChangePointPool, MaxEntries)

ChangePointPaths ==
  {[change_points |-> Missing], [change_points |-> Unparsable],
   [change_points |-> Json(JList(<< >>))],
   [change_points |-> Json(JDict(<< <<"model", JStr(<<"m">>)>> >>))],
   [change_points |-> Json(JDict(<< <<"change_points", JNull>> >>))],
   [change_points |-> Json(JDict(<< <<"change_points", JDict(<< >>)>> >>))]}
  \cup {[change_points |-> Json(JDict(<< <<"change_points", JList(l)>> >>))] :
          l \in ChangePointLists}
  \cup {[change_points |->
           Json(JDict(<< <<"model", JStr(<<"m">>)>>,
                         <<"change_points", JList(l)>>,
                         <<"n", JInt(Len(l))>> >>))] :
          l \in ChangePointLists}

(* ChangePointService.get_change_points, lines 200-219 *)
GetChangePoints ==
  /\ pc = "idle"
  /\ \E paths \in ChangePointPaths :
       \E e \in {get_change_points_entry(paths)} :
          /\ req' = [op |-> "get_change_points", paths |-> paths]
          /\ IF e.next = "done"
             THEN /\ pc' = "done"
                  /\ result' = e.result
                  /\ UNCHANGED <<payload, cps, idx>>
             ELSE /\ pc' = "cps_loop"
                  /\ payload' = paths.change_points.value
                  /\ cps' = e.rows
                  /\ idx' = 1
                  /\ UNCHANGED result
          /\ UNCHANGED <<rows, start, end, has_category, invalid_date,
                         invalid_price, invalid_event, normalized, response>>

(* one iteration of lines 220-233 *)
GetChangePointsEntry ==
  /\ pc = "cps_loop"
  /\ idx <= Len(cps)
  /\ \E r \in {ChangePoint(cps[idx], idx - 1)} :
        IF r.act = "raise"
        THEN /\ pc' = "done"
             /\ result' = r.result
             /\ UNCHANGED <<idx, normalized>>
        ELSE /\ normalized' = Append(normalized, r.item)
             /\ idx' = idx + 1
             /\ UNCHANGED <<pc, result>>
  /\ UNCHANGED <<req, rows, start, end, has_category, payload, invalid_date,
                 invalid_price, invalid_event, cps, response>>

(* lines 235-237 *)
GetChangePointsFinish ==
  /\ pc = "cps_loop"
  /\ idx > Len(cps)
  /\ pc' = "done"
  /\ result' = get_change_points_exit(payload, normalized)
  /\ UNCHANGED <<req, rows, idx, start, end, has_category, payload,
                 invalid_date, invalid_price, invalid_event, cps, normalized,
                 response>>

NextChangePoints ==
  GetChangePoints \/ GetChangePointsEntry \/ GetChangePointsFinish \/ Respond

SpecChangePoints == Init /\ [][NextChangePoints]_vars

-----------------------------------------------------------------------------
(* DateParser.parse on its own                                             *)

Years == {2019, 2020}

NN == {0, 2, 3, 4, 12, 13, 29, 31}

Slashed(a, b, y) == Pad(a, 2) \o <<"/">> \o Pad(b, 2) \o <<"/">> \o Pad(y, 4)

OtherTexts ==
  { None, << >>, <<" ">>, <<" ", "\t", " ">>, Bad,
    D_2020_01_01, <<" ">> \o D_2020_01_01 \o <<"\t">>,
    D_2020_01_01 \o <<"Z">>,
    D_2020_01_01 \o <<"T", "1", "0", ":", "3", "0", ":", "0", "0">>,
    D_2020_01_01 \o <<"T", "1", "0", ":", "3", "0", ":", "0", "0", "Z">>,
    D_2020_01_01 \o <<" ", "1", "0", ":", "3", "0", "+", "0", "5", ":", "3", "0">>,
    D_2020_01_01 \o <<"T", "2", "5", ":", "0", "0">>,
    <<"2","0","2","0","-","0","2","-","3","0">>,
    <<"2","0","2","0","-","1","3","-","0","1">>,
    <<"0","0","0","0","-","0","1","-","0","1">>,
    <<"2","0","2","0","/","0","3","/","0","4">>,
    <<"2","0","2","0","/","3","/","4">>,
    <<"2","0","2","0","/","1","3","/","0","4">>,
    <<"3","/","4","/","2","0","2","0">>,
    <<"3","/"," ","4","/","2","0","2","0">>,
    <<"0","3","/","0","4","/","2","0">>,
    <<"0","3","/","0","4","/","2","0","2","0","/","1">>,
    <<"0","4","-","M","a","r","-","2","0">>,
    <<"0","4","-","m","A","R","-","6","8">>,
    <<"0","4","-","M","a","r","-","6","9">>,
    <<"0","4","-","M","a","r","-","2","0","2","0">>,
    <<"3","0","-","F","e","b","-","2","0","2","0">>,
    <<"0","4","-","M","a","r","c","h","-","2","0","2","0">>,
    <<"0","4","-","0","3","-","2","0","2","0">> }

ParseTexts == {Slashed(a, b, y) : a \in NN, b \in NN, y \in Years} \cup OtherTexts

(* DateParser.parse, lines 27-51 *)
Parse ==
  /\ pc = "idle"
  /\ \E value \in ParseTexts :
         /\ pc' = "done"
         /\ req' = [op |-> "parse", value |-> value]
         /\ result' = Return(parse(value))
         /\ UNCHANGED <<rows, idx, start, end, has_category, payload, invalid_date,
                        invalid_price, invalid_event, cps, normalized, response>>

SpecParse == Init /\ [][Parse]_vars

Next ==
  \/ Parse
  \/ GetPrices \/ GetPricesRow \/ GetPricesFinish
  \/ GetEvents \/ GetEventsRow \/ GetEventsFinish
  \/ GetChangePoints \/ GetChangePointsEntry \/ GetChangePointsFinish
  \/ Respond

Spec == Init /\ [][Next]_vars

-----------------------------------------------------------------------------
(* Properties of PriceService.get_prices                                   *)

PricesDone == pc = "done" /\ req.op = "get_prices"

PriceSource ==
  IF req.paths.prices.exists THEN req.paths.prices ELSE req.paths.alt_prices

DateOf(row) == parse(Get(row, "Date"))

PriceOf(row) == float(StripCommas(Get(row, "Price")))

ValidPriceRow(row) == DateOf(row) # None /\ PriceOf(row) # ValueError

(* the row has a date and an active bound excludes it *)
Excluded(row, lo, hi) ==
  /\ DateOf(row) # None
  /\ \/ lo # None /\ DateLess(DateOf(row), lo)
     \/ hi # None /\ DateLess(hi, DateOf(row))

(* C1: when the source has at least one row with a parsable Date and a     *)
(* parsable Price and the bounds exclude every such row, get_prices        *)
(* returns the empty list, whatever the other rows are.                    *)
C1_EmptyListWhenValidRowsExcluded ==
  ( /\ PricesDone
    /\ \E i \in 1..Len(rows) : ValidPriceRow(rows[i])
    /\ \A i \in 1..Len(rows) :
         ValidPriceRow(rows[i]) => Excluded(rows[i], start, end) )
  => result = Return(<< >>)

(* C3: every price of a returned list is finite.                           *)
C3_ReturnedPricesFinite ==
  (PricesDone /\ result.kind = "ok")
  => \A i \in 1..Len(result.value) : isfinite(result.value[i].price)

(* C4: with start and end both parsable and start > end, get_prices fails  *)
(* with InvalidArgument (400) for every existing source that has no data   *)
(* rows or whose first row has the Date and Price columns.                 *)
C4_ReversedRangeRejected ==
  ( /\ PricesDone
    /\ PriceSource.exists /\ PriceSource.readable
    /\ \/ PriceSource.rows = << >>
       \/ {"Date", "Price"} \subseteq DOMAIN PriceSource.rows[1]
    /\ parse(req.start_raw) # None
    /\ parse(req.end_raw) # None
    /\ DateLess(parse(req.end_raw), parse(req.start_raw)) )
  => /\ Raised(result)
     /\ result.name = "InvalidArgument"
     /\ result.status_code = 400

Kept ==
  {i \in 1..Len(PriceSource.rows) :
     /\ ValidPriceRow(PriceSource.rows[i])
     /\ ~Excluded(PriceSource.rows[i], parse(req.start_raw), parse(req.end_raw))}

(* row j comes before row i: earlier calendar date, or same date and       *)
(* earlier in the file                                                     *)
Before(date_of, j, i) ==
  \/ DateLess(date_of[j], date_of[i])
  \/ date_of[j] = date_of[i] /\ j < i

PriceRank(i) ==
  LET date_of == [k \in Kept |-> DateOf(PriceSource.rows[k])]
  IN 1 + Cardinality({j \in Kept : Before(date_of, j, i)})

(* C8: the returned list is exactly the rows with a parsable Date, a       *)
(* parsable Price and a date inside every active bound, ascending by       *)
(* calendar date, rows of equal date in file order.                        *)
C8_ReturnedListIsKeptRowsInDateOrder ==
  (PricesDone /\ result.kind = "ok")
  => /\ Len(result.value) = Cardinality(Kept)
     /\ \A i \in Kept :
          result.value[PriceRank(i)] =
            [date  |-> isoformat(DateOf(PriceSource.rows[i])),
             price |-> PriceOf(PriceSource.rows[i])]

(* a list was returned that holds two rows of one date next to each other  *)
(* and whose rows were not in date order in the file                       *)
C8_Witness ==
  /\ PricesDone /\ result.kind = "ok"
  /\ \E k \in 1..(Len(result.value) - 1) :
       /\ result.value[k].date = result.value[k + 1].date
       /\ result.value[k].price # result.value[k + 1].price
  /\ \E i, j \in Kept :
       i < j /\ DateLess(DateOf(PriceSource.rows[j]), DateOf(PriceSource.rows[i]))

AtPriceRow == pc = "prices_loop" /\ idx <= Len(rows)

AfterPriceRows == pc = "prices_loop" /\ idx > Len(rows)

CountsUnchanged ==
  invalid_date' = invalid_date /\ invalid_price' = invalid_price

NoValidDataRaised(r) == Raised(r) /\ r.name = "NoValidData"

(* C9 as stated: a row whose date is outside an active bound adds to       *)
(* neither count, whatever its Price text, and a source of such rows only  *)
(* never fails with NoValidData.                                           *)
C9_ExcludedRowNeverCounted ==
  [][ /\ (AtPriceRow /\ Excluded(rows[idx], start, end)) => CountsUnchanged
      /\ ( /\ AfterPriceRows
           /\ \A i \in 1..Len(rows) : Excluded(rows[i], start, end) )
         => ~NoValidDataRaised(result') ]_vars

(* C9, amended: a row with a parsable Price whose date is outside an       *)
(* active bound adds to neither count, and a source of such rows only      *)
(* never fails with NoValidData.                                           *)
C9_ExcludedValidRowNeverCounted ==
  [][ /\ ( /\ AtPriceRow
           /\ Excluded(rows[idx], start, end)
           /\ PriceOf(rows[idx]) # ValueError )
         => CountsUnchanged
      /\ ( /\ AfterPriceRows
           /\ \A i \in 1..Len(rows) :
                Excluded(rows[i], start, end) /\ PriceOf(rows[i]) # ValueError )
         => ~NoValidDataRaised(result') ]_vars

(* every row of the source was outside the bounds with a parsable price,   *)
(* and the empty list was returned                                         *)
C9_Witness ==
  /\ PricesDone
  /\ Len(rows) >= 2
  /\ \A i \in 1..Len(rows) :
       Excluded(rows[i], start, end) /\ PriceOf(rows[i]) # ValueError
  /\ invalid_date = 0 /\ invalid_price = 0
  /\ result = Return(<< >>)

-----------------------------------------------------------------------------
(* Properties of EventService.get_events                                   *)

EventsDone == pc = "done" /\ req.op = "get_events"

EventDateOf(row) == parse(Get(row, "date"))

EmptyEvent(row) == Strip(OrEmpty(Get(row, "event"))) = << >>

KeptEvents ==
  {i \in 1..Len(rows) : EventDateOf(rows[i]) # None /\ ~EmptyEvent(rows[i])}

EventRank(i) ==
  LET date_of == [k \in KeptEvents |-> EventDateOf(rows[k])]
  IN 1 + Cardinality({j \in KeptEvents : Before(date_of, j, i)})

HasCategoryColumn == Len(rows) > 0 /\ "category" \in DOMAIN rows[1]

(* C2 as stated: with a category column every output record carries its    *)
(* row's category value, "" for an empty value; without the column every   *)
(* output record's category is null.                                       *)
C2_CategoryIsRowValue ==
  (EventsDone /\ result.kind = "ok")
  => \A i \in KeptEvents :
       result.value[EventRank(i)].category =
         IF HasCategoryColumn THEN Get(rows[i], "category") ELSE None

(* C2, amended: with a category column every output record carries its     *)
(* row's category value when that value is not empty and null when it is   *)
(* empty; without the column every output record's category is null.       *)
C2_CategoryIsRowValueOrNull ==
  (EventsDone /\ result.kind = "ok")
  => \A i \in KeptEvents :
       result.value[EventRank(i)].category =
         IF HasCategoryColumn /\ Get(rows[i], "category") # << >>
         THEN Get(rows[i], "category")
         ELSE None

(* a list was returned that holds a row with an empty category value next  *)
(* to a row with a category text                                           *)
C2_Witness ==
  /\ EventsDone /\ result.kind = "ok"
  /\ HasCategoryColumn
  /\ \E i, j \in KeptEvents :
       /\ Get(rows[i], "category") = << >>
       /\ result.value[EventRank(i)].category = None
       /\ Get(rows[j], "category") \notin {<< >>, None}
       /\ result.value[EventRank(j)].category = Get(rows[j], "category")

AllSkipped == Len(rows) > 0 /\ payload = << >>

NoValidEvents ==
  /\ Raised(result)
  /\ result.name = "NoValidData"
  /\ result.detail[2] # 0

(* C7 as stated: every row whose event text is empty after trimming is     *)
(* skipped and counted as an invalid event, and a source with such a row    *)
(* in which every row is skipped fails with NoValidData and a nonzero      *)
(* invalid-event count.                                                    *)
C7_EmptyEventCounted ==
  EventsDone
  => /\ Len(rows) > 0 =>
          invalid_event = Cardinality({i \in 1..Len(rows) : EmptyEvent(rows[i])})
     /\ (AllSkipped /\ \E i \in 1..Len(rows) : EmptyEvent(rows[i]))
          => NoValidEvents

EmptyEventWithDate(row) == EventDateOf(row) # None /\ EmptyEvent(row)

(* C7, amended: every row with a parsable date whose event text is empty   *)
(* after trimming is skipped and counted as an invalid event, and a source *)
(* with such a row in which every row is skipped fails with NoValidData    *)
(* and a nonzero invalid-event count.                                      *)
C7_EmptyEventWithDateCounted ==
  EventsDone
  => /\ Len(rows) > 0 =>
          /\ invalid_event =
               Cardinality({i \in 1..Len(rows) : EmptyEventWithDate(rows[i])})
          /\ Len(payload) + invalid_event <=
               Cardinality({i \in 1..Len(rows) : EventDateOf(rows[i]) # None})
     /\ (AllSkipped /\ \E i \in 1..Len(rows) : EmptyEventWithDate(rows[i]))
          => NoValidEvents

(* every row was skipped, one for its empty event and one for its date     *)
C7_Witness ==
  /\ EventsDone
  /\ AllSkipped
  /\ \E i \in 1..Len(rows) : EmptyEventWithDate(rows[i])
  /\ \E i \in 1..Len(rows) : EventDateOf(rows[i]) = None /\ EmptyEvent(rows[i])
  /\ NoValidEvents
  /\ result.detail[1] # 0

-----------------------------------------------------------------------------
(* Properties of ChangePointService.get_change_points                      *)

ChangePointsFile == req.paths.change_points

(* the call got as far as the loop over the entries *)
EntriesReached ==
  /\ pc = "done" /\ req.op = "get_change_points"
  /\ ChangePointsFile.exists /\ ChangePointsFile.json
  /\ IsDict(ChangePointsFile.value)
  /\ Has(ChangePointsFile.value[2], "change_points")
  /\ IsList(Item(ChangePointsFile.value[2], "change_points"))

Entries == Item(ChangePointsFile.value[2], "change_points")[2]

(* the entry is an object with a date that parses *)
GoodEntry(e) ==
  /\ IsDict(e)
  /\ Has(e[2], "date")
  /\ Item(e[2], "date") # JNull
  /\ parse(Str(Item(e[2], "date"))) # None

BadEntries == {i \in 1..Len(Entries) : ~GoodEntry(Entries[i])}

FirstBadEntry == CHOOSE i \in BadEntries : \A j \in BadEntries : i <= j

(* C5: if any entry is not an object, lacks a date or has a date that does *)
(* not parse, the call fails with SchemaError naming the 0-based index of  *)
(* the first such entry; it returns a document only when every entry is an *)
(* object with a parsable date.                                            *)
C5_FirstBadEntryFailsTheCall ==
  EntriesReached
  => IF BadEntries # {}
     THEN /\ Raised(result)
          /\ result.name = "SchemaError"
          /\ result.detail[1] \in {"object", "date"}
          /\ result.detail[2] = FirstBadEntry - 1
     ELSE result.kind = "ok"

(* the call failed on an entry after the first, with valid entries before  *)
(* and after it                                                            *)
C5_Witness ==
  /\ EntriesReached
  /\ Len(Entries) >= 3
  /\ BadEntries # {}
  /\ FirstBadEntry = 2
  /\ GoodEntry(Entries[3])
  /\ Raised(result)
  /\ result.detail[2] = 1

KEY_ORDER == <<"date", "mean_before", "mean_after", "impact_pct", "notes">>

KeyPos(key) == CHOOSE k \in 1..Len(KEY_ORDER) : KEY_ORDER[k] = key

Keys(pairs) == {pairs[i][1] : i \in 1..Len(pairs)}

(* the output entry for an input entry: date first, then the optional keys *)
(* of the input in the fixed order, values unchanged, nothing else         *)
NormalizedFrom(o, e) ==
  /\ Keys(o) = {"date"} \cup (Keys(e) \cap {KEY_ORDER[k] : k \in 2..Len(KEY_ORDER)})
  /\ \A a, b \in 1..Len(o) : a < b => KeyPos(o[a][1]) < KeyPos(o[b][1])
  /\ Item(o, "date") = JStr(isoformat(parse(Str(Item(e, "date")))))
  /\ \A key \in Keys(o) \ {"date"} : Item(o, key) = Item(e, key)

(* C6: on success the document has as many change_points as the input, in *)
(* the same order, each with exactly the canonical date and the optional   *)
(* keys present on the input entry, unchanged and in the fixed key order,   *)
(* and every other top-level key keeps its value.                          *)
C6_NormalizedDocument ==
  (EntriesReached /\ result.kind = "ok")
  => LET out  == result.value[2]
         outs == Item(out, "change_points")[2]
     IN /\ Len(outs) = Len(Entries)
        /\ \A i \in 1..Len(outs) :
             IsDict(outs[i]) /\ NormalizedFrom(outs[i][2], Entries[i][2])
        /\ Keys(out) = Keys(ChangePointsFile.value[2])
        /\ Len(out) = Len(ChangePointsFile.value[2])
        /\ \A key \in Keys(out) \ {"change_points"} :
             Item(out, key) = Item(ChangePointsFile.value[2], key)

(* a document was returned with other top-level keys and with two entries, *)
(* one carrying an unrecognized key and one its keys out of order          *)
C6_Witness ==
  /\ EntriesReached /\ result.kind = "ok"
  /\ Len(ChangePointsFile.value[2]) > 1
  /\ Len(Entries) >= 2
  /\ \E i \in 1..Len(Entries) : Has(Entries[i][2], "unexpected")
  /\ \E i \in 1..Len(Entries) :
       Has(Entries[i][2], "notes") /\ Entries[i][2][1][1] = "notes"

-----------------------------------------------------------------------------
(* Properties of DateParser.parse                                          *)

ParseDone == pc = "done" /\ req.op = "parse"

Blank(value) ==
  value = None \/ \A i \in 1..Len(value) : value[i] \in Whitespace

(* the text is NN/NN/YYYY *)
IsSlashed(t) ==
  /\ Len(t) = 10
  /\ t[3] = "/" /\ t[6] = "/"
  /\ \A i \in {1, 2, 4, 5, 7, 8, 9, 10} : IsDigit(t[i])

First(t) == ToInt(SubSeq(t, 1, 2))

Second(t) == ToInt(SubSeq(t, 4, 5))

Year(t) == ToInt(SubSeq(t, 7, 10))

IsIso(t) == fromisoformat(Replace(Strip(t), "Z", UTC)) # ValueError

PATTERN_ORDER ==
  << [sep |-> "/", fields |-> <<"Y", "m", "d">>],
     [sep |-> "/", fields |-> <<"m", "d", "Y">>],
     [sep |-> "/", fields |-> <<"d", "m", "Y">>],
     [sep |-> "-", fields |-> <<"d", "b", "y">>],
     [sep |-> "-", fields |-> <<"d", "b", "Y">>] >>

Matches(t, k) == strptime(Strip(t), PATTERN_ORDER[k]) # ValueError

(* C10: parse never raises; it returns null for null, empty and            *)
(* whitespace-only input; a text that is not ISO-8601 is read by the first *)
(* of the five patterns that matches it, so NN/NN/YYYY is read month-first  *)
(* when that is a valid date and day-first only when it is not; null when  *)
(* no pattern matches.                                                     *)
C10_FirstPatternWins ==
  ParseDone
  => LET t == req.value
     IN /\ result.kind = "ok"
        /\ Blank(t) => result.value = None
        /\ (~Blank(t) /\ ~IsIso(t)) =>
             /\ \A k \in 1..Len(PATTERN_ORDER) :
                  (Matches(t, k) /\ \A j \in 1..(k - 1) : ~Matches(t, j))
                  => result.value = strptime(Strip(t), PATTERN_ORDER[k])
             /\ (\A k \in 1..Len(PATTERN_ORDER) : ~Matches(t, k))
                  => result.value = None
        /\ (~Blank(t) /\ IsSlashed(t)) =>
             result.value =
               IF ValidDate(Year(t), First(t), Second(t))
               THEN <<Year(t), First(t), Second(t)>>
               ELSE IF ValidDate(Year(t), Second(t), First(t))
               THEN <<Year(t), Second(t), First(t)>>
               ELSE None

(* an NN/NN/YYYY text valid both ways was read month-first *)
C10_Witness ==
  /\ ParseDone
  /\ ~Blank(req.value) /\ IsSlashed(req.value)
  /\ First(req.value) # Second(req.value)
  /\ ValidDate(Year(req.value), First(req.value), Second(req.value))
  /\ ValidDate(Year(req.value), Second(req.value), First(req.value))
  /\ result.value = <<Year(req.value), First(req.value), Second(req.value)>>

====
